---- MODULE Spec2Model ----
(***************************************************************************)
(* SyncCalendars.py: mirrors the busy time of a source Outlook calendar    *)
(* into a target calendar.  The script resolves both calendars, fetches    *)
(* the source events of the next 30 days sorted by start, and for each     *)
(* event asks event_overlaps whether the target already holds a matching   *)
(* item; if not, book_busy_time adds a "Busy" appointment.                 *)
(*                                                                         *)
(* Time is counted in ticks of 30 seconds, so that the minute precision of *)
(* the strftime format used in the Restrict filters is visible.  A         *)
(* datetime is its wall-clock reading; .replace(tzinfo=None) keeps the     *)
(* wall-clock fields and only drops the offset, which the model does not   *)
(* carry.  Recurrences are not modelled: every item is a single interval.  *)
(***************************************************************************)
EXTENDS Integers, Sequences, FiniteSets, TLC

\* ---------------------------------------------------------------- bounds
MaxTime == 4
\* The script is executed again while the target calendar has room for a
\* block of every source event below this length.
MaxItems == 5
MaxNow == 1

\* ------------------------------------------------------------- constants
\* One minute in ticks: the unit of timedelta(minutes=1) and of '%M'.
Minute == 2
\* timedelta(days=30) in ticks.
Days30 == 30 * 24 * 60 * Minute

SOURCE_ACCOUNT == "user@workemail.com"
TARGET_ACCOUNT == "user@personalemail.com"
CALENDAR_NAME == "Calendar"
None == "None"

\* The subjects of the events the source calendar may hold, and of the items
\* that other people or programs may have put on the target calendar.
SourceSubjects == <<"Standup", "Review">>
ForeignSubjects == {"Dentist"}

Times == 0..MaxTime

\* The clock when the script is first started: at the first of Times, or 30
\* days before it, so that the window ends among Times.
EarlyClock == 0 - Days30
FirstClocks == {0, EarlyClock}
\* The latest reading of the clock in a behaviour that started at reading t.
LastClock(t) == (IF t < 0 THEN EarlyClock ELSE 0) + MaxNow
Intervals == {iv \in Times \X Times : iv[1] <= iv[2]}

\* An appointment item as the script reads or writes it.
Item(subject, start, end, location, body) ==
    [Subject |-> subject, Start |-> start, End |-> end,
     Location |-> location, BusyStatus |-> 2, Body |-> body]

\* The source calendars considered: the first n subjects, each with an
\* interval.  A subject is an opaque label to the script, so of two calendars
\* that differ only by exchanging subjects one is kept: the one whose starts
\* do not decrease along SourceSubjects.
SourceCalendars ==
    UNION {{ {Item(SourceSubjects[j], f[j][1], f[j][2], "", <<>>) : j \in 1..n} :
              f \in {g \in [1..n -> Intervals] :
                        \A j \in 1..n - 1 : g[j][1] <= g[j + 1][1]} } :
           n \in 0..Len(SourceSubjects)}

\* ----------------------------------------------------------------- state
VARIABLES
    namespace,        \* namespace.Folders: the accounts and their folders
    sourceItems,      \* items of the source calendar folder (a set)
    targetItems,      \* items of the target calendar folder, in save order
    now,              \* the wall clock
    pc,               \* position of the script
    START_DATE, END_DATE,
    source_calendar, target_calendar,
    source_events,    \* list(events) returned by get_events
    idx,              \* position of the for loop in source_events
    ev,               \* per fetched event: stage, overlap answer, create calls,
                      \* number of target items when its overlap check ran
    calls             \* connector operations invoked by the current run

vars == <<namespace, sourceItems, targetItems, now, pc, START_DATE,
          END_DATE, source_calendar, target_calendar, source_events, idx,
          ev, calls>>

\* ------------------------------------------------------- pure operations
\* A format that keeps the seconds.
strftime_seconds(t) == t

\* strftime('%m/%d/%Y %I:%M %p') read back by Restrict: the seconds are lost.
strftime(t) == (t \div Minute) * Minute

\* get_calendar: the folder of the first account with that name that has
\* the calendar folder; None when no account yields one.
get_calendar(account_name, calendar_name) ==
    IF \E a \in namespace : a.Name = account_name /\ calendar_name \in a.Folders
    THEN account_name
    ELSE None

\* A filter without the test on [End].
InWindow_start_only(e, start_date, end_date) ==
    e.Start >= strftime(start_date)

\* The filter of get_events: [Start] >= start_date AND [End] <= end_date.
InWindow(e, start_date, end_date) ==
    e.Start >= strftime(start_date) /\ e.End <= strftime(end_date)

IsSortedByStart(s) ==
    \A j \in 1..Len(s) - 1 : s[j].Start <= s[j + 1].Start

ListsOf(S) ==
    {s \in [1..Cardinality(S) -> S] : \A x \in S : \E j \in DOMAIN s : s[j] = x}

\* get_events: the restricted items as a list sorted on [Start]; the order
\* of items with equal Start is the backend's.
get_events(items, start_date, end_date) ==
    {s \in ListsOf({e \in items : InWindow(e, start_date, end_date)}) :
        IsSortedByStart(s)}

\* A filter that lets every item through.
InConflictFilter_all(item, start, end) == TRUE

\* The filter of event_overlaps: ([Start] < end) AND ([End] > start).
InConflictFilter(item, start, end) ==
    item.Start < strftime(end) /\ item.End > strftime(start)

Restrict(items, start, end) ==
    SelectSeq(items, LAMBDA item : InConflictFilter(item, start, end))

\* Line 61: timedelta(minutes=1).
buffer == Minute

\* A condition that every conflict meets.
Matches_any(conflict, start, end) == TRUE

\* The condition of line 66 without the buffer.
Matches_no_buffer(conflict, start, end) ==
    \/ (conflict.Start <= start /\ start <= conflict.End)
    \/ (conflict.Start <= start /\ conflict.End >= end)

\* The condition of line 66 on one conflict.
Matches(conflict, start, end) ==
    \/ (conflict.Start - buffer <= start /\ start <= conflict.End + buffer)
    \/ (conflict.Start <= start /\ conflict.End >= end)

event_overlaps(items, start, end) ==
    LET conflicts == Restrict(items, start, end)
    IN  \E j \in 1..Len(conflicts) : Matches(conflicts[j], start, end)

\* The appointment book_busy_time saves for an event.
NewBusy(event) ==
    Item("Busy", event.Start, event.End, "Reserved by Automation",
         <<"Blocked due to event: ", event.Subject>>)

\* A loop that books whatever the overlap check answers.
Decision_always_book(overlaps) == "Book"

\* The branch of the main loop after the overlap check.
Decision(overlaps) == IF ~overlaps THEN "Book" ELSE "Skip"

\* An except clause around the loop instead of inside it: the loop is left.
AfterError_break(k) == Len(source_events) + 1

\* The loop index after the except clause of the main loop has run.
AfterError(k) == k + 1

\* ------------------------------------------------------------------ Init
Accounts(srcOk, tgtOk) ==
    {[Name |-> SOURCE_ACCOUNT, Folders |-> IF srcOk THEN {CALENDAR_NAME} ELSE {}],
     [Name |-> TARGET_ACCOUNT, Folders |-> IF tgtOk THEN {CALENDAR_NAME} ELSE {}]}

Init ==
    /\ \E srcOk, tgtOk \in BOOLEAN :
        /\ namespace = Accounts(srcOk, tgtOk)
        /\ IF srcOk
           THEN sourceItems \in SourceCalendars
           ELSE sourceItems = {}
        /\ IF tgtOk
           THEN \/ targetItems = <<>>
                \/ \E s \in ForeignSubjects, iv \in Intervals :
                    targetItems = <<Item(s, iv[1], iv[2], "", <<>>)>>
           ELSE targetItems = <<>>
    /\ now \in FirstClocks
    /\ pc = "init"
    /\ START_DATE = 0
    /\ END_DATE = 0
    /\ source_calendar = None
    /\ target_calendar = None
    /\ source_events = <<>>
    /\ idx = 0
    /\ ev = <<>>
    /\ calls = {}

\* --------------------------------------------------------------- actions
\* Lines 18-19 and 91-92: the window is computed from the clock, and both
\* calendars are looked up.
Startup ==
    /\ pc = "init"
    /\ \E t \in now..LastClock(now) :
        /\ now' = t
        /\ START_DATE' = t
        /\ END_DATE' = t + Days30
    /\ source_calendar' = get_calendar(SOURCE_ACCOUNT, CALENDAR_NAME)
    /\ target_calendar' = get_calendar(TARGET_ACCOUNT, CALENDAR_NAME)
    /\ pc' = "resolved"
    /\ UNCHANGED <<namespace, sourceItems, targetItems, source_events,
                   idx, ev, calls>>

\* A script without the test of line 97.
TargetMissing_unchecked == FALSE

\* Line 94: not source_calendar.  Line 97: not target_calendar.
SourceMissing == source_calendar = None
TargetMissing == target_calendar = None

\* The status the process ends with after exit(code): exit() without an
\* argument raises SystemExit(None), which is status 0.
exit(code) == IF code = None THEN 0 ELSE code

\* The status of the process once it has ended: exit() of line 96 or 99, or
\* the end of the script after line 118.
ExitStatus == IF pc = "exit" THEN exit(None) ELSE 0

\* Lines 94-96.
ExitNoSource ==
    /\ pc = "resolved"
    /\ SourceMissing
    /\ pc' = "exit"
    /\ UNCHANGED <<namespace, sourceItems, targetItems, now, START_DATE,
                   END_DATE, source_calendar, target_calendar, source_events,
                   idx, ev, calls>>

\* Lines 97-99.
ExitNoTarget ==
    /\ pc = "resolved"
    /\ ~SourceMissing
    /\ TargetMissing
    /\ pc' = "exit"
    /\ UNCHANGED <<namespace, sourceItems, targetItems, now, START_DATE,
                   END_DATE, source_calendar, target_calendar, source_events,
                   idx, ev, calls>>

\* Line 102.
Fetch ==
    /\ pc = "resolved"
    /\ ~SourceMissing
    /\ ~TargetMissing
    /\ \E s \in get_events(sourceItems, START_DATE, END_DATE) :
        /\ source_events' = s
        /\ ev' = [j \in 1..Len(s) |->
                    [st |-> "Fetched", overlap |-> "unknown", creates |-> 0,
                     seen |-> 0]]
    /\ idx' = 1
    /\ calls' = calls \cup {"get_events"}
    /\ pc' = "loop"
    /\ UNCHANGED <<namespace, sourceItems, targetItems, now, START_DATE,
                   END_DATE, source_calendar, target_calendar>>

InLoop == pc = "loop" /\ idx \in 1..Len(source_events)

\* The target as the current run found it: nothing is ever removed and each
\* booked event appended one item.
NumBooked == Cardinality({k \in DOMAIN ev : ev[k].st = "Booked"})
Target0 == SubSeq(targetItems, 1, Len(targetItems) - NumBooked)

\* An overlap check that reads a list of the target's items taken once,
\* before the loop.
TargetSeen_stale == Target0

\* Line 52: target_calendar.Items, read anew by every overlap check.
TargetSeen == targetItems

\* Lines 107-111: start and end are read and the overlap check answers.
Evaluate ==
    /\ InLoop
    /\ ev[idx].st = "Fetched"
    /\ LET e == source_events[idx]
           o == event_overlaps(TargetSeen, e.Start, e.End)
       IN  ev' = [ev EXCEPT ![idx].st = Decision(o),
                            ![idx].overlap = IF o THEN "yes" ELSE "no",
                            ![idx].seen = Len(targetItems)]
    /\ calls' = calls \cup {"Restrict"}
    /\ UNCHANGED <<namespace, sourceItems, targetItems, now, pc,
                   START_DATE, END_DATE, source_calendar, target_calendar,
                   source_events, idx>>

\* Lines 107-108 raise: the event's Start or End cannot be read.
ReadFails ==
    /\ InLoop
    /\ ev[idx].st = "Fetched"
    /\ ev' = [ev EXCEPT ![idx].st = "Error"]
    /\ UNCHANGED <<namespace, sourceItems, targetItems, now, pc,
                   START_DATE, END_DATE, source_calendar, target_calendar,
                   source_events, idx, calls>>

\* Line 111 raises: the Restrict query of event_overlaps fails.
QueryFails ==
    /\ InLoop
    /\ ev[idx].st = "Fetched"
    /\ ev' = [ev EXCEPT ![idx].st = "Error"]
    /\ calls' = calls \cup {"Restrict"}
    /\ UNCHANGED <<namespace, sourceItems, targetItems, now, pc,
                   START_DATE, END_DATE, source_calendar, target_calendar,
                   source_events, idx>>

\* Line 112, lines 75-83: the busy block is saved.
Book ==
    /\ InLoop
    /\ ev[idx].st = "Book"
    /\ targetItems' = Append(targetItems, NewBusy(source_events[idx]))
    /\ ev' = [ev EXCEPT ![idx].st = "Booked", ![idx].creates = @ + 1]
    /\ calls' = calls \cup {"Add"}
    /\ idx' = idx + 1
    /\ UNCHANGED <<namespace, sourceItems, now, pc, START_DATE, END_DATE,
                   source_calendar, target_calendar, source_events>>

\* A book_busy_time that calls the create again when it has raised.
CreateFails_retry ==
    /\ InLoop
    /\ ev[idx].st = "Book"
    /\ ev' = [ev EXCEPT ![idx].creates = @ + 1]
    /\ calls' = calls \cup {"Add"}
    /\ UNCHANGED <<namespace, sourceItems, targetItems, now, pc,
                   START_DATE, END_DATE, source_calendar, target_calendar,
                   source_events, idx>>

\* Line 112, lines 84-85: creating the appointment raises before it is
\* saved; book_busy_time reports it and returns.
CreateFails ==
    /\ InLoop
    /\ ev[idx].st = "Book"
    /\ ev' = [ev EXCEPT ![idx].st = "ErroredFinal", ![idx].creates = @ + 1]
    /\ calls' = calls \cup {"Add"}
    /\ idx' = idx + 1
    /\ UNCHANGED <<namespace, sourceItems, targetItems, now, pc,
                   START_DATE, END_DATE, source_calendar, target_calendar,
                   source_events>>

\* A loop whose else branch books as well.
Skip_and_book ==
    /\ InLoop
    /\ ev[idx].st = "Skip"
    /\ targetItems' = Append(targetItems, NewBusy(source_events[idx]))
    /\ ev' = [ev EXCEPT ![idx].st = "SkippedFinal"]
    /\ idx' = idx + 1
    /\ UNCHANGED <<namespace, sourceItems, now, pc, START_DATE, END_DATE,
                   source_calendar, target_calendar, source_events, calls>>

\* Lines 113-114.
Skip ==
    /\ InLoop
    /\ ev[idx].st = "Skip"
    /\ ev' = [ev EXCEPT ![idx].st = "SkippedFinal"]
    /\ idx' = idx + 1
    /\ UNCHANGED <<namespace, sourceItems, targetItems, now, pc,
                   START_DATE, END_DATE, source_calendar, target_calendar,
                   source_events, calls>>

\* An except clause that puts the event back to be processed again.
HandleError_retry ==
    /\ InLoop
    /\ ev[idx].st = "Error"
    /\ ev' = [ev EXCEPT ![idx].st = "Fetched"]
    /\ UNCHANGED <<namespace, sourceItems, targetItems, now, pc,
                   START_DATE, END_DATE, source_calendar, target_calendar,
                   source_events, idx, calls>>

\* Lines 115-116: the except clause of the loop body.
HandleError ==
    /\ InLoop
    /\ ev[idx].st = "Error"
    /\ ev' = [ev EXCEPT ![idx].st = "ErroredFinal"]
    /\ idx' = AfterError(idx)
    /\ UNCHANGED <<namespace, sourceItems, targetItems, now, pc,
                   START_DATE, END_DATE, source_calendar, target_calendar,
                   source_events, calls>>

\* Line 118: the loop is exhausted.
Finish ==
    /\ pc = "loop"
    /\ idx > Len(source_events)
    /\ pc' = "done"
    /\ UNCHANGED <<namespace, sourceItems, targetItems, now, START_DATE,
                   END_DATE, source_calendar, target_calendar, source_events,
                   idx, ev, calls>>

\* The script is executed again: nothing of the previous process survives
\* but the calendars.
NextRun ==
    /\ pc \in {"done", "exit"}
    /\ Len(targetItems) + Cardinality(sourceItems) <= MaxItems
    /\ pc' = "init"
    /\ START_DATE' = 0
    /\ END_DATE' = 0
    /\ source_calendar' = None
    /\ target_calendar' = None
    /\ source_events' = <<>>
    /\ idx' = 0
    /\ ev' = <<>>
    /\ calls' = {}
    /\ UNCHANGED <<namespace, sourceItems, targetItems, now>>

Next ==
    \/ Startup
    \/ ExitNoSource
    \/ ExitNoTarget
    \/ Fetch
    \/ Evaluate
    \/ ReadFails
    \/ QueryFails
    \/ Book
    \/ CreateFails
    \/ Skip
    \/ HandleError
    \/ Finish
    \/ NextRun

Spec == Init /\ [][Next]_vars

\* The script is one thread that runs to its end: a step that can be taken
\* is taken.
FairSpec == Spec /\ WF_vars(Next)

\* The same, from the states whose target calendar is empty.
InitEmptyTarget == Init /\ targetItems = <<>>
FairSpecEmptyTarget == InitEmptyTarget /\ [][Next]_vars /\ WF_vars(Next)

\* ------------------------------------------------- what the claims read
Finals == {"Booked", "SkippedFinal", "ErroredFinal"}

\* The overlap check of the current event has answered and the loop has not
\* acted on it yet: targetItems is the target the check has seen.
Checked == InLoop /\ ev[idx].st \in {"Book", "Skip"}
cand == source_events[idx]

\* An interval of positive length; one whose ends are whole minutes, which
\* strftime renders exactly.
Positive(item) == item.Start < item.End
WholeMinutes(item) ==
    item.Start % Minute = 0 /\ item.End % Minute = 0

IsBlock(item) == item.Location = "Reserved by Automation"

\* The loop of lines 105-116 when nothing raises: the decisions it takes
\* for a list of events, from a given target.
RECURSIVE RunDecisions(_, _)
RunDecisions(events, items) ==
    IF events = <<>>
    THEN <<>>
    ELSE LET e == Head(events)
             d == Decision(event_overlaps(items, e.Start, e.End))
         IN  <<d>> \o RunDecisions(Tail(events),
                                   IF d = "Book" THEN Append(items, NewBusy(e))
                                                 ELSE items)

Actual(k) ==
    CASE ev[k].st = "Booked" -> "Book"
      [] ev[k].st = "SkippedFinal" -> "Skip"
      [] OTHER -> "Error"

\* The positions of S in increasing order.
IdxList(S) ==
    CHOOSE g \in [1..Cardinality(S) -> S] :
        \A a, b \in 1..Cardinality(S) : a < b => g[a] < g[b]

\* ---------------------------------------------------------------- claims

\* C1: Idempotence.  A run never books an event whose busy block is on the
\* target already, saved there by an earlier run (zero-length events
\* included): the overlap check finds that block.
C1_Idempotent ==
    (InLoop /\ ev[idx].st = "Book") =>
        ~ \E j \in 1..Len(targetItems) : targetItems[j] = NewBusy(cand)

\* C2: No duplicate blocks.  The target never holds two blocks created by
\* the script with the same start and the same end.
C2_NoDuplicateBlocks ==
    \A j, k \in 1..Len(targetItems) :
        (j < k /\ IsBlock(targetItems[j]) /\ IsBlock(targetItems[k])) =>
            ~ (targetItems[j].Start = targetItems[k].Start
               /\ targetItems[j].End = targetItems[k].End)

\* C3: Tolerant start rule.  When the target holds an item with
\* item.start - 1 minute <= candidate.start <= item.end + 1 minute, the
\* overlap check answers true.  Stated on the candidates of positive length
\* at whole minutes and the items of positive length.
C3_TolerantStart ==
    (Checked /\ Positive(cand) /\ WholeMinutes(cand)) =>
        \A j \in 1..Len(targetItems) :
            (Positive(targetItems[j])
             /\ targetItems[j].Start - Minute <= cand.Start
             /\ cand.Start <= targetItems[j].End + Minute)
                => ev[idx].overlap = "yes"

\* C4: Containment rule.  When the target holds an item with
\* item.start <= candidate.start and item.end >= candidate.end, the overlap
\* check answers true.
C4_Containment ==
    Checked =>
        \A j \in 1..Len(targetItems) :
            (targetItems[j].Start <= cand.Start
             /\ targetItems[j].End >= cand.End)
                => ev[idx].overlap = "yes"

\* C5: No false positives.  The overlap check answers true only if some
\* item of the target satisfies the tolerant start rule or the containment
\* rule, and answers false when no item lies in the queried window.
C5_NoFalsePositive ==
    Checked =>
        /\ ev[idx].overlap = "yes" =>
            \E j \in 1..Len(targetItems) :
                \/ (targetItems[j].Start - Minute <= cand.Start
                    /\ cand.Start <= targetItems[j].End + Minute)
                \/ (targetItems[j].Start <= cand.Start
                    /\ targetItems[j].End >= cand.End)
        /\ (\A j \in 1..Len(targetItems) :
                ~ (targetItems[j].Start < strftime(cand.End)
                   /\ targetItems[j].End > strftime(cand.Start)))
            => ev[idx].overlap = "no"

\* C5 witness: an item lies in the queried window, satisfies neither rule,
\* and the check has answered false.
C5_Witness ==
    /\ Checked
    /\ ev[idx].overlap = "no"
    /\ \E j \in 1..Len(targetItems) :
        /\ targetItems[j].Start < strftime(cand.End)
        /\ targetItems[j].End > strftime(cand.Start)

\* C6 as stated: the check answers true for every item that truly
\* intersects the candidate.  Stated on the candidates of positive length at
\* whole minutes and the items of positive length.
C6_NowhereStricter ==
    (Checked /\ Positive(cand) /\ WholeMinutes(cand)) =>
        \A j \in 1..Len(targetItems) :
            (Positive(targetItems[j])
             /\ cand.Start < targetItems[j].End /\ cand.End > targetItems[j].Start)
                => ev[idx].overlap = "yes"

\* C6 amended: the check answers true for every item that intersects the
\* candidate, starts no more than one minute after the candidate's start
\* and starts before the candidate's end truncated to the whole minute.
C6_StricterOnlyOnLateStart ==
    Checked =>
        \A j \in 1..Len(targetItems) :
            (/\ targetItems[j].Start - Minute <= cand.Start
             /\ cand.Start < targetItems[j].End
             /\ targetItems[j].Start < strftime(cand.End))
                => ev[idx].overlap = "yes"

\* C6 witness: the check has answered true on an item that starts after the
\* candidate's start, within the minute of tolerance.
C6_Witness ==
    /\ Checked
    /\ ev[idx].overlap = "yes"
    /\ Len(targetItems) = 1
    /\ targetItems[1].Start > cand.Start
    /\ targetItems[1].Start - Minute <= cand.Start
    /\ targetItems[1].Start < strftime(cand.End)

\* C7: Partial-failure isolation.  When the run ends every fetched event
\* has been evaluated, whatever raised before it, and the events that did
\* not raise got the decisions of a run from the same target over those
\* events alone.
C7_FailureIsolation ==
    pc = "done" =>
        /\ \A k \in DOMAIN ev : ev[k].st \in Finals
        /\ LET g == IdxList({k \in DOMAIN ev : ev[k].st \in {"Booked", "SkippedFinal"}})
               d == RunDecisions([j \in DOMAIN g |-> source_events[g[j]]], Target0)
           IN  \A j \in DOMAIN g : d[j] = Actual(g[j])

\* C7 witness: a run has ended in which an event raised and the next event
\* was booked.
C7_Witness ==
    /\ pc = "done"
    /\ \E k \in DOMAIN ev :
        /\ k + 1 \in DOMAIN ev
        /\ ev[k].st = "ErroredFinal"
        /\ ev[k + 1].st = "Booked"

\* C8: Fatal abort.  Once a calendar has failed to resolve, the run is at
\* its exit: get_events, the overlap query and the create were never
\* called, no event was fetched and the target holds no busy block.
C8_FatalAbort ==
    (pc # "init" /\ (source_calendar = None \/ target_calendar = None)) =>
        /\ pc \in {"resolved", "exit"}
        /\ calls = {}
        /\ source_events = <<>>
        /\ \A j \in 1..Len(targetItems) : ~ IsBlock(targetItems[j])

\* C8 witness: the run has exited on a missing target calendar while the
\* source calendar held events.
C8_Witness ==
    /\ pc = "exit"
    /\ source_calendar # None
    /\ target_calendar = None
    /\ sourceItems # {}

\* C9: Decision policy.  An event that has reached a final stage has had
\* the create called (once) exactly if its overlap check answered false,
\* no create is called before; a booked event has its block on the target,
\* with its start and end, subject "Busy" and a body naming its subject.
C9_DecisionPolicy ==
    \A k \in DOMAIN ev :
        /\ ev[k].st \in Finals => (ev[k].creates = 1 <=> ev[k].overlap = "no")
        /\ ev[k].st \notin Finals => ev[k].creates = 0
        /\ ev[k].creates \in {0, 1}
        /\ ev[k].st = "Booked" =>
            \E j \in Len(Target0) + 1..Len(targetItems) :
                /\ targetItems[j].Start = source_events[k].Start
                /\ targetItems[j].End = source_events[k].End
                /\ targetItems[j].Subject = "Busy"
                /\ targetItems[j].Body = <<"Blocked due to event: ", source_events[k].Subject>>

\* C9 witness: an event was booked although the target held an item lying
\* inside it, starting more than a minute after its start.
C9_Witness ==
    \E k \in DOMAIN ev :
        /\ ev[k].st = "Booked"
        /\ Len(Target0) = 1
        /\ Target0[1].Start > source_events[k].Start + Minute
        /\ Target0[1].End < source_events[k].End

\* The run has ended and nothing raised in it.
DoneClean == pc = "done" /\ \A k \in DOMAIN ev : ev[k].st \in {"Booked", "SkippedFinal"}

\* Every processing order of the fetched events gives each event the
\* decision it got in this run.
SameUnderEveryOrder ==
    \A p \in ListsOf(DOMAIN ev) :
        LET d == RunDecisions([j \in DOMAIN p |-> source_events[p[j]]], Target0)
        IN  \A j \in DOMAIN p : d[j] = Actual(p[j])

\* C10 as stated: the decisions of a run do not depend on the order in
\* which the fetched events are processed.  Stated on the source events of
\* positive length at whole minutes, no two of the same start.
C10_OrderIndependent ==
    (/\ DoneClean
     /\ \A k \in DOMAIN ev : Positive(source_events[k]) /\ WholeMinutes(source_events[k])
     /\ \A j, k \in DOMAIN ev : j # k => source_events[j].Start # source_events[k].Start)
        => SameUnderEveryOrder

\* Of two events, one ends no later than the minute in which the other starts.
Apart(e, f) == e.End <= strftime(f.Start) \/ f.End <= strftime(e.Start)

\* C10 amended: the decisions do not depend on the order when the fetched
\* events are pairwise apart.
C10_OrderIndependentWhenApart ==
    (DoneClean /\ \A j, k \in DOMAIN ev :
                    j # k => Apart(source_events[j], source_events[k]))
        => SameUnderEveryOrder

\* C10 witness: a run over two events that are apart, of different starts,
\* has booked both.
C10_Witness ==
    /\ DoneClean
    /\ Len(source_events) = 2
    /\ source_events[1].Start < source_events[2].Start
    /\ Apart(source_events[1], source_events[2])
    /\ ev[1].st = "Booked"
    /\ ev[2].st = "Booked"

\* C11: Check-then-act serialization.  The events before the loop position
\* are finished and those after it untouched, so no check or create of
\* another event lies between an event's check and its create; and when an
\* event is about to be booked the target holds what its check saw, and
\* the check would still answer no-match.
C11_Serialized ==
    \A k \in DOMAIN ev :
        /\ (pc = "loop" /\ k < idx) => ev[k].st \in Finals
        /\ (pc = "loop" /\ k > idx) => ev[k].st = "Fetched"
        /\ ev[k].st = "Book" =>
            /\ k = idx
            /\ Len(targetItems) = ev[k].seen
            /\ ~ event_overlaps(targetItems, source_events[k].Start,
                                source_events[k].End)

\* C11 witness: the second event is about to be booked after the run has
\* booked the first.
C11_Witness ==
    /\ InLoop
    /\ idx = 2
    /\ ev[1].st = "Booked"
    /\ ev[2].st = "Book"

\* C12: At most one booking attempt per event per run.  The create is
\* called at most once for an event and never again after it; a call that
\* saves appends the event's block, a call that fails leaves the target as
\* it was, and either way the loop moves to the next event.
C12_OneAttempt ==
    [][DOMAIN ev' = DOMAIN ev =>
        \A k \in DOMAIN ev :
            /\ ev'[k].creates \in {0, 1}
            /\ ev[k].creates = 1 => ev'[k] = ev[k]
            /\ (ev[k].creates = 0 /\ ev'[k].creates = 1) =>
                /\ IF ev'[k].st = "Booked"
                   THEN targetItems' = Append(targetItems, NewBusy(source_events[k]))
                   ELSE ev'[k].st = "ErroredFinal" /\ targetItems' = targetItems
                /\ idx' = k + 1
                /\ pc' = "loop"]_vars

\* C12 witness: a create has failed, the target holds no block of that
\* event, and the next event has been processed.
C12_Witness ==
    \E k \in DOMAIN ev :
        /\ ev[k].st = "ErroredFinal"
        /\ ev[k].creates = 1
        /\ \A j \in 1..Len(targetItems) : targetItems[j] # NewBusy(source_events[k])
        /\ k + 1 \in DOMAIN ev
        /\ ev[k + 1].st \in Finals

\* The moves of one event's stage.
StageStep(a, b) ==
    \/ a = b
    \/ a = "Fetched" /\ b \in {"Book", "Skip", "Error"}
    \/ a = "Book" /\ b \in {"Booked", "ErroredFinal"}
    \/ a = "Skip" /\ b = "SkippedFinal"
    \/ a = "Error" /\ b = "ErroredFinal"

\* C13: Per-event state machine.  While the loop runs each event's stage
\* moves only Fetched -> Book|Skip|Error -> Booked|SkippedFinal|ErroredFinal
\* (a final stage is never left, no event is evaluated twice), and once the
\* loop has started the run reaches its end with every fetched event in a
\* final stage.
C13_EventStateMachine ==
    /\ [][pc = "loop" =>
            /\ DOMAIN ev' = DOMAIN ev
            /\ \A k \in DOMAIN ev : StageStep(ev[k].st, ev'[k].st)]_vars
    /\ (pc = "loop") ~> (pc = "done" /\ \A k \in DOMAIN ev : ev[k].st \in Finals)

\* C13 witness: a run has ended with one event skipped and one errored.
C13_Witness ==
    /\ pc = "done"
    /\ Len(ev) = 2
    /\ ev[1].st = "SkippedFinal"
    /\ ev[2].st = "ErroredFinal"

\* C14: Exit status.  The process ends with a non-zero status when a
\* calendar failed to resolve, and with status zero after the loop.
C14_ExitStatus ==
    /\ pc = "exit" => ExitStatus # 0
    /\ pc = "done" => ExitStatus = 0

\* C15: Skip and Error leave the target untouched.  A step of the loop that
\* takes an event to Skip or Error, or from there to its final stage, calls
\* no create and leaves the target's items as they were.
C15_SkipErrorFrame ==
    [][(/\ InLoop
        /\ ev[idx].st \in {"Fetched", "Skip", "Error"}
        /\ ev'[idx].st \in {"Skip", "Error", "SkippedFinal", "ErroredFinal"})
        => /\ targetItems' = targetItems
           /\ ev'[idx].creates = 0
           /\ "Add" \in calls' => "Add" \in calls]_vars

\* C15 witness: an event was skipped and the target holds what its overlap
\* check saw.
C15_Witness ==
    \E k \in DOMAIN ev :
        /\ ev[k].st = "SkippedFinal"
        /\ idx = k + 1
        /\ ev[k].creates = 0
        /\ Len(targetItems) = ev[k].seen

\* A time truncated to the whole minute, by arithmetic.
WholeMinute(t) == t - (t % Minute)

\* C16 as stated: the overlap check answers true exactly if some item has
\* item.start - 1 minute <= candidate.start < item.end and
\* item.start < candidate.end.
C16_EffectivePredicate ==
    (Checked /\ cand.Start <= cand.End) =>
        (ev[idx].overlap = "yes" <=>
            \E j \in 1..Len(targetItems) :
                /\ targetItems[j].Start - Minute <= cand.Start
                /\ cand.Start < targetItems[j].End
                /\ targetItems[j].Start < cand.End)

\* C16 amended: the overlap check answers true exactly if some item has
\* item.start - 1 minute <= candidate.start, ends after the candidate's
\* start truncated to the minute and starts before the candidate's end
\* truncated to the minute.
C16_EffectivePredicateTruncated ==
    (Checked /\ cand.Start <= cand.End) =>
        (ev[idx].overlap = "yes" <=>
            \E j \in 1..Len(targetItems) :
                /\ targetItems[j].Start - Minute <= cand.Start
                /\ WholeMinute(cand.Start) < targetItems[j].End
                /\ targetItems[j].Start < WholeMinute(cand.End))

\* C16 witness: the check has answered true on an item that ends at the
\* candidate's start, after the minute the start lies in has begun.
C16_Witness ==
    /\ Checked
    /\ ev[idx].overlap = "yes"
    /\ Len(targetItems) = 1
    /\ targetItems[1].End = cand.Start
    /\ targetItems[1].Start < targetItems[1].End

\* C17: No two busy blocks created by one run strictly intersect.
C17_NoIntersectingBlocks ==
    \A j, k \in Len(Target0) + 1..Len(targetItems) :
        j < k => ~ (targetItems[j].Start < targetItems[k].End
                    /\ targetItems[k].Start < targetItems[j].End)

\* C18 as stated: every fetched event starts no earlier than the window's
\* start and ends no later than its end.
C18_Window ==
    pc \in {"loop", "done"} =>
        \A k \in DOMAIN ev :
            /\ source_events[k].Start >= START_DATE
            /\ source_events[k].End <= END_DATE

\* C18 amended: the window is [START_DATE, START_DATE + 30 days] with
\* start <= end, it does not change while the run goes on, and every fetched
\* event starts no earlier than the window's start truncated to the minute
\* and ends no later than the window's end truncated to the minute.
C18_WindowTruncated ==
    /\ [](pc \in {"resolved", "loop", "done", "exit"} =>
            /\ START_DATE <= END_DATE
            /\ END_DATE = START_DATE + Days30
            /\ \A k \in DOMAIN ev :
                /\ source_events[k].Start >= WholeMinute(START_DATE)
                /\ source_events[k].End <= WholeMinute(END_DATE))
    /\ [][(pc = "resolved" \/ pc = "loop") =>
            (START_DATE' = START_DATE /\ END_DATE' = END_DATE)]_vars

\* C18 witness: a run has ended that booked an event and left out a source
\* event ending after the window's end.
C18_Witness ==
    /\ pc = "done"
    /\ \E e \in sourceItems : e.End > WholeMinute(END_DATE)
    /\ \E k \in DOMAIN ev : ev[k].st = "Booked"

====
